---- MODULE Spec2Model ----
(***************************************************************************)
(* Model of src/main.py of mongo-backup-tool: one run of the application   *)
(* script (Spec), and the same run next to a second session of the         *)
(* application in the same process (SpecSessions).                         *)
(* The state is the backup root directory (OUTPUT_DIR), the                *)
(* retention sweeper thread (cleanup_old_backups), and the locals of the   *)
(* one operation a script run performs: create_and_offer_download or       *)
(* restore_database.  The external tools (mongodump, mongorestore), the    *)
(* database server and the cancel button are the environment: every        *)
(* outcome they can produce is a nondeterministic choice.                  *)
(*                                                                         *)
(* File names are sequences of "_"-separated tokens plus an extension, so  *)
(* that str.startswith("backup_") is computed on the name the code built.  *)
(* Time is the wall clock in seconds.                                      *)
(***************************************************************************)
EXTENDS Integers, Sequences, FiniteSets, TLC

VARIABLES
    now,            \* wall clock, seconds since the script started
    fs,             \* entries of OUTPUT_DIR: [name, isdir, ctime]
    content,        \* what the job's output directory holds, per database
    zipContent,     \* what the job's archive holds, per database
    spc,            \* sweeper thread: "sleep" | "scan" | "delete" | "dead"
    wakeAt,         \* when the sweeper's time.sleep(300) ends
    current_time,   \* sweeper local (line 78)
    pending,        \* sweeper: names of this cycle's listing still to examine
    target,         \* sweeper: dir_path about to be rmtree'd
    pc,             \* create_and_offer_download: position
    request,        \* db_names argument: "ALL" (None) or the explicit list
    db_names, i, total_size, size_details, show_cancel,
    timestamp, output_dir, error_dbs,
    dump,           \* the mongodump child process
    sized,          \* history: the databases whose size was taken, in order
    accessible,     \* history: those of them whose collections could be listed
    readable_total, \* history: the bytes of their collections that could be read
    invocations,    \* history: every mongodump command line run, with its exit
    polls,          \* history: how often the cancel button was polled
    message,        \* what the job showed: st.error / info / success
    offered,        \* st.download_button was shown
    reported,       \* error_dbs as shown in the success message
    rpc,            \* restore_database: position
    upload,         \* zip_file: the uploaded bytes, as an archive or not
    temp_dir,       \* restore_database local (line 369)
    backup_dir,     \* restore_database local (line 399)
    rtool,          \* the mongorestore child process and its two pipes
    lines_read,     \* history: stderr lines the loop of line 414 consumed
    rinvocations,   \* history: every mongorestore command line run
    rmessage,       \* what the restore showed: st.error / st.success
    stderr_shown,   \* stderr lines in the error of line 427
    script_runs,    \* how often lines 69-91 ran: once per run of the script
    opc,            \* a second session: position of its script run
    o_db_names,     \* a second session: db_names of its backup job
    o_output_dir,   \* a second session: output_dir of its backup job
    o_temp_dir      \* a second session: temp_dir of its restore

jobVars == <<pc, request, db_names, i, total_size, size_details, show_cancel,
             timestamp, output_dir, error_dbs, dump, sized, accessible,
             readable_total, invocations, polls, message, offered, reported>>
sweepVars == <<spc, wakeAt, current_time, pending, target>>
restoreVars == <<rpc, upload, temp_dir, backup_dir, rtool, lines_read,
                 rinvocations, rmessage, stderr_shown>>
otherVars == <<script_runs, opc, o_db_names, o_output_dir, o_temp_dir>>
vars == <<now, fs, content, zipContent, sweepVars, jobVars, restoreVars, otherVars>>

----------------------------------------------------------------------------
(* Constants of the program *)

MiB == 1024 * 1024
MAX_EXPORT_SIZE == 512 * MiB
BACKUP_RETENTION_HOURS == 1
RetentionSeconds == BACKUP_RETENTION_HOURS * 3600
SweepSleep == 300
CancelThresholdMB == 10

(* Bounds of the model *)

MaxTicks == 14          \* the clock stops after MaxTicks steps of TickStep
MaxStartTicks == 1      \* the button is clicked within so many clock steps
MaxToolLines == 2       \* lines mongorestore writes to each of its streams
PipeCapacity == 1       \* lines a pipe buffers before the writer blocks

----------------------------------------------------------------------------
(* Names *)

DbShop == <<"shop">>
DbBackupX == <<"backup", "x">>
DBs == {DbShop, DbBackupX}
NoName == [stem |-> <<>>, ext |-> ""]

\* str.startswith("backup_") on a name made of "_"-joined tokens
StartsWithBackup(name) ==
    Len(name.stem) >= 2 /\ name.stem[1] = "backup"

\* datetime.now().strftime("%Y%m%d_%H%M%S"): one token per second
Strftime(t) == ToString(t)

\* lines 224-229 (the third branch needs an empty db_names)
FolderName(names, ts) ==
    IF names # <<>> /\ Len(names) = 1
    THEN [stem |-> names[1] \o <<ts>>, ext |-> ""]
    ELSE IF names # <<>>
    THEN [stem |-> <<"multiple", "dbs", ToString(Len(names)), ts>>, ext |-> ""]
    ELSE [stem |-> <<"all", "databases", ts>>, ext |-> ""]

\* f"{output_dir}.zip"
ZipName(dir) == [stem |-> dir.stem, ext |-> ".zip"]

----------------------------------------------------------------------------
(* The file system under OUTPUT_DIR *)

Exists(name) == \E e \in fs : e.name = name
IsDir(name) == \E e \in fs : e.name = name /\ e.isdir
Ctime(name) == (CHOOSE e \in fs : e.name = name).ctime
Rmtree(f, name) == {e \in f : e.name # name}
Makedirs(f, name, t) ==
    IF \E e \in f : e.name = name THEN f
    ELSE f \cup {[name |-> name, isdir |-> TRUE, ctime |-> t]}
\* what output_dir holds of a database: nothing ("none"), its empty folder
\* ("folder"), some of its dump's files ("partial") or its whole dump ("full")
Emptied == [d \in DBs |-> "none"]
Damaged(c) ==
    [d \in DBs |-> IF c[d] \in {"none", "folder"} THEN c[d] ELSE "partial"]

----------------------------------------------------------------------------
(* The database server, as the size estimation sees it *)

Coll(size, ok) == [size |-> size, ok |-> ok]
Db(listable, colls) == [listable |-> listable, colls |-> colls]

\* what one database can look like when get_database_size is called
DbStates ==
    { Db(FALSE, <<>>),                                   \* list_collection_names denied
      Db(TRUE, <<>>),                                    \* no collections
      Db(TRUE, <<Coll(4 * MiB, TRUE)>>),
      Db(TRUE, <<Coll(4 * MiB, FALSE)>>),                \* collstats denied
      Db(TRUE, <<Coll(300 * MiB, TRUE), Coll(4 * MiB, FALSE)>>),
      Db(TRUE, <<Coll(296 * MiB, TRUE), Coll(4 * MiB, TRUE)>>) }

RECURSIVE SumReadable(_)
SumReadable(colls) ==
    IF colls = <<>> THEN 0
    ELSE (IF Head(colls).ok THEN Head(colls).size ELSE 0) + SumReadable(Tail(colls))

\* get_database_size, lines 94-108
GetDatabaseSize(db) ==
    IF ~db.listable THEN 0 ELSE SumReadable(db.colls)

RECURSIVE SumOver(_, _)
SumOver(f, S) ==
    IF S = {} THEN 0
    ELSE LET d == CHOOSE x \in S : TRUE IN f[d] + SumOver(f, S \ {d})

\* the bytes of a database that the connection is allowed to read: the sizes
\* of the collections whose collstats succeeds, in a database whose
\* collections can be listed
ReadableBytes(db) ==
    IF ~db.listable THEN 0
    ELSE SumOver([k \in 1..Len(db.colls) |-> db.colls[k].size],
                 {k \in 1..Len(db.colls) : db.colls[k].ok})

\* the explicit selections of the multiselect (line 482): no duplicates, not empty
Selections ==
    { <<DbShop>>, <<DbBackupX>>, <<DbShop, DbBackupX>>, <<DbBackupX, DbShop>> }

\* client.list_database_names(): OperationFailure, or the server's databases
ListOutcomes ==
    {[ok |-> FALSE, names |-> <<>>]}
        \cup {[ok |-> TRUE, names |-> l] : l \in {<<>>} \cup Selections}

\* the db_names argument: None (line 497) or the selection (line 492)
Requests ==
    {[all |-> TRUE, names |-> <<>>]}
        \cup {[all |-> FALSE, names |-> l] : l \in Selections}

----------------------------------------------------------------------------
(* The retention sweeper thread: cleanup_old_backups, lines 75-86 *)

Running == 0 - 1        \* the exit code of a process that has not exited
NoDump == [running |-> FALSE, db |-> <<>>, disturbed |-> FALSE]
InUse(name) == dump.running /\ name = output_dir

\* lines 78-79: a cycle starts: the clock is read and OUTPUT_DIR is listed
SweepWake ==
    /\ spc = "sleep"
    /\ now >= wakeAt
    /\ current_time' = now
    /\ pending' = {e.name : e \in fs}
    /\ spc' = "scan"
    /\ UNCHANGED <<now, fs, content, zipContent, wakeAt, target, jobVars>>
    /\ UNCHANGED <<restoreVars, otherVars>>

\* lines 80-84: one dirname of the listing: prefix, isdir, getctime, age
SweepExamine ==
    /\ spc = "scan"
    /\ \E n \in pending :
        /\ pending' = pending \ {n}
        /\ IF StartsWithBackup(n) /\ IsDir(n)
              /\ (current_time - Ctime(n)) > RetentionSeconds
           THEN spc' = "delete" /\ target' = n
           ELSE UNCHANGED <<spc, target>>
    /\ UNCHANGED <<now, fs, content, zipContent, wakeAt, current_time, jobVars>>
    /\ UNCHANGED <<restoreVars, otherVars>>

\* line 85: shutil.rmtree(dir_path).  It raises when the directory is gone
\* (another actor removed it after the isdir check) and may raise when a running
\* mongodump is writing into it; nothing in the loop catches the exception, so
\* it ends the thread.
SweepDelete ==
    /\ spc = "delete"
    /\ \E ok \in (IF ~Exists(target) THEN {FALSE}
                  ELSE IF InUse(target) THEN BOOLEAN ELSE {TRUE}) :
        /\ fs' = IF ok THEN Rmtree(fs, target) ELSE fs
        /\ content' = IF target # output_dir \/ ~Exists(target) THEN content
                      ELSE IF ok THEN Emptied ELSE Damaged(content)
        /\ dump' = IF InUse(target) /\ Exists(target)
                   THEN [dump EXCEPT !.disturbed = TRUE] ELSE dump
        /\ spc' = IF ok THEN "scan" ELSE "dead"
        /\ pending' = IF ok THEN pending ELSE {}
    /\ target' = NoName
    /\ UNCHANGED <<now, zipContent, wakeAt, current_time,
                   pc, request, db_names, i, total_size, size_details,
                   show_cancel, timestamp, output_dir, error_dbs, sized,
                   accessible, readable_total, invocations,
                   polls, message, offered, reported>>
    /\ UNCHANGED <<restoreVars, otherVars>>

\* line 86: the listing is exhausted: time.sleep(300)
SweepSleepStep ==
    /\ spc = "scan"
    /\ pending = {}
    /\ spc' = "sleep"
    /\ wakeAt' = now + SweepSleep
    /\ UNCHANGED <<now, fs, content, zipContent, current_time, pending, target,
                   jobVars>>
    /\ UNCHANGED <<restoreVars, otherVars>>

----------------------------------------------------------------------------
(* create_and_offer_download, lines 170-325 *)

NoSizes == [d \in {} |-> 0]
sweepAndFs == <<now, fs, content, zipContent, sweepVars>>

\* lines 317-320: except Exception: remove output_dir if it exists, show the error
ExceptHandler ==
    /\ fs' = Rmtree(fs, output_dir)
    /\ content' = Emptied
    /\ message' = "failed"
    /\ pc' = "done"

\* lines 488-497: a button starts the job, with the selection or with None
StartBackup ==
    /\ pc = "idle"
    /\ rpc = "idle"
    /\ \E r \in Requests :
        /\ request' = r
        /\ db_names' = r.names
        /\ pc' = IF r.all THEN "list" ELSE "sizing"
    /\ i' = 1
    /\ UNCHANGED <<sweepAndFs, total_size, size_details, show_cancel, timestamp,
                   output_dir, error_dbs, dump, sized, accessible, readable_total,
                   invocations, polls, message,
                   offered, reported>>
    /\ UNCHANGED <<restoreVars, otherVars>>

\* lines 185-190: db_names is None: it is REPLACED by the server's list
ListDatabases ==
    /\ pc = "list"
    /\ \E r \in ListOutcomes :
        IF r.ok
        THEN db_names' = r.names /\ pc' = "sizing" /\ UNCHANGED message
        ELSE message' = "insufficient_permissions" /\ pc' = "done"
                /\ UNCHANGED db_names
    /\ UNCHANGED <<sweepAndFs, request, i, total_size, size_details, show_cancel,
                   timestamp, output_dir, error_dbs, dump, sized, accessible,
                   readable_total, invocations, polls,
                   offered, reported>>
    /\ UNCHANGED <<restoreVars, otherVars>>

\* lines 194-199: one iteration of the sizing loop
SizeDatabase ==
    /\ pc = "sizing"
    /\ i <= Len(db_names)
    /\ \E db \in DbStates :
        LET size == GetDatabaseSize(db)
            name == db_names[i]
        IN  /\ IF size > 0
               THEN /\ total_size' = total_size + size
                    /\ size_details' =
                           [d \in DOMAIN size_details \cup {name} |->
                               IF d = name THEN size ELSE size_details[d]]
               ELSE UNCHANGED <<total_size, size_details>>
            /\ accessible' = IF db.listable THEN accessible \cup {name}
                             ELSE accessible
            /\ readable_total' = readable_total + ReadableBytes(db)
    /\ sized' = Append(sized, db_names[i])
    /\ i' = i + 1
    /\ UNCHANGED <<sweepAndFs, pc, request, db_names, show_cancel, timestamp,
                   output_dir, error_dbs, dump, invocations, polls, message,
                   offered, reported>>
    /\ UNCHANGED <<restoreVars, otherVars>>

\* the ceiling compared with the size in megabytes instead of bytes
ExceedsCeiling_Mutant(total) == (total \div MiB) > MAX_EXPORT_SIZE

\* line 205
ExceedsCeiling(total) == total > MAX_EXPORT_SIZE

\* lines 201-232: the two gates, then the names of the job
SizeGate ==
    /\ pc = "sizing"
    /\ i > Len(db_names)
    /\ IF DOMAIN size_details = {}
       THEN /\ message' = "no_accessible_databases"
            /\ pc' = "done"
            /\ UNCHANGED <<show_cancel, timestamp, output_dir, i>>
       ELSE IF ExceedsCeiling(total_size)
       THEN /\ message' = "size_limit_exceeded"
            /\ pc' = "done"
            /\ UNCHANGED <<show_cancel, timestamp, output_dir, i>>
       ELSE /\ show_cancel' = (total_size > CancelThresholdMB * MiB)
            /\ timestamp' = Strftime(now)
            /\ output_dir' = FolderName(db_names, Strftime(now))
            /\ i' = 1
            /\ pc' = "poll"
            /\ UNCHANGED message
    /\ UNCHANGED <<sweepAndFs, request, db_names, total_size, size_details,
                   error_dbs, dump, sized, accessible, readable_total, invocations,
                   polls, offered, reported>>
    /\ UNCHANGED <<restoreVars, otherVars>>

\* a cancel that returns without removing output_dir
CancelCheck_Mutant ==
    /\ pc = "poll"
    /\ \E clicked \in (IF show_cancel THEN BOOLEAN ELSE {FALSE}) :
        IF clicked
        THEN message' = "cancelled" /\ pc' = "done"
        ELSE pc' = "invoke" /\ UNCHANGED message
    /\ polls' = IF show_cancel THEN polls + 1 ELSE polls
    /\ UNCHANGED <<now, fs, content, zipContent, sweepVars, request, db_names, i,
                   total_size, size_details, show_cancel, timestamp, output_dir,
                   error_dbs, dump, sized, accessible, readable_total, invocations,
                   offered, reported>>
    /\ UNCHANGED <<restoreVars, otherVars>>

\* lines 242-251 and 268-277: the cancel button, shown only if show_cancel
CancelCheck ==
    /\ pc = "poll"
    /\ \E clicked \in (IF show_cancel THEN BOOLEAN ELSE {FALSE}) :
        IF clicked
        THEN /\ fs' = Rmtree(fs, output_dir)
             /\ content' = Emptied
             /\ message' = "cancelled"
             /\ pc' = "done"
        ELSE /\ pc' = "invoke"
             /\ UNCHANGED <<fs, content, message>>
    /\ polls' = IF show_cancel THEN polls + 1 ELSE polls
    /\ UNCHANGED <<now, zipContent, sweepVars, request, db_names, i, total_size,
                   size_details, show_cancel, timestamp, output_dir, error_dbs,
                   dump, sized, accessible, readable_total, invocations, offered,
                   reported>>
    /\ UNCHANGED <<restoreVars, otherVars>>

\* lines 253-262 and 279-283: subprocess.run starts mongodump; with a database
\* list it is given --db, without one it runs in bulk mode.  The tool may create
\* its --out directory and the database's folder at once or only later.
DumpStart ==
    /\ pc = "invoke"
    /\ LET perDb == db_names # <<>>
           db == IF perDb THEN db_names[i] ELSE <<>>
       IN  /\ invocations' = Append(invocations,
                                [db |-> db, perDb |-> perDb, rc |-> Running])
           /\ dump' = [running |-> TRUE, db |-> db, disturbed |-> FALSE]
           /\ \E mk \in BOOLEAN :
                IF mk
                THEN /\ fs' = Makedirs(fs, output_dir, now)
                     /\ content' = IF perDb /\ content[db] = "none"
                                   THEN [content EXCEPT ![db] = "folder"]
                                   ELSE content
                ELSE UNCHANGED <<fs, content>>
    /\ pc' = "dumping"
    /\ UNCHANGED <<now, zipContent, sweepVars, request, db_names, i, total_size,
                   size_details, show_cancel, timestamp, output_dir, error_dbs,
                   sized, accessible, readable_total, polls, message, offered,
                   reported>>
    /\ UNCHANGED <<restoreVars, otherVars>>

\* a failed run ends the loop: the remaining databases are not dumped
DumpFinish_Mutant ==
    /\ pc = "dumping"
    /\ \E rc \in {0, 1} :
        /\ invocations' = [invocations EXCEPT ![Len(invocations)].rc = rc]
        /\ fs' = IF rc = 0 /\ ~dump.disturbed THEN Makedirs(fs, output_dir, now) ELSE fs
        /\ content' = IF rc = 0 /\ ~dump.disturbed
                      THEN [content EXCEPT ![dump.db] = "full"] ELSE content
        /\ error_dbs' = IF rc # 0 THEN Append(error_dbs, dump.db) ELSE error_dbs
        /\ i' = i + 1
        /\ pc' = IF rc # 0 \/ i + 1 > Len(db_names) THEN "package" ELSE "poll"
    /\ dump' = NoDump
    /\ UNCHANGED <<now, zipContent, sweepVars, request, db_names, total_size,
                   size_details, show_cancel, timestamp, output_dir,
                   sized, accessible, readable_total, polls, message, offered,
                   reported>>
    /\ UNCHANGED <<restoreVars, otherVars>>

\* lines 263-264 and 284-285: mongodump exits.  Exit 0 leaves the database's
\* complete dump under output_dir, unless the directory was removed under the
\* running tool; a non-zero exit leaves what the tool had written so far.
DumpFinish ==
    /\ pc = "dumping"
    /\ \E rc \in {0, 1} :
        /\ invocations' = [invocations EXCEPT ![Len(invocations)].rc = rc]
        /\ LET perDb == db_names # <<>>
               wrote == rc = 0 /\ ~dump.disturbed
               fs1 == IF wrote THEN Makedirs(fs, output_dir, now) ELSE fs
               content1 == IF ~wrote THEN content
                           ELSE IF perDb THEN [content EXCEPT ![dump.db] = "full"]
                           ELSE [d \in DBs |-> "full"]
           IN  IF perDb
               THEN /\ fs' = fs1
                    /\ content' = content1
                    /\ error_dbs' = IF rc # 0 THEN Append(error_dbs, dump.db)
                                    ELSE error_dbs
                    /\ i' = i + 1
                    /\ pc' = IF i + 1 > Len(db_names) THEN "package" ELSE "poll"
                    /\ UNCHANGED message
               ELSE IF rc # 0
               THEN \* raise Exception(...), caught at line 317
                    /\ fs' = Rmtree(fs1, output_dir)
                    /\ content' = Emptied
                    /\ message' = "failed"
                    /\ pc' = "done"
                    /\ UNCHANGED <<error_dbs, i>>
               ELSE /\ fs' = fs1
                    /\ content' = content1
                    /\ pc' = "package"
                    /\ UNCHANGED <<error_dbs, i, message>>
    /\ dump' = NoDump
    /\ UNCHANGED <<now, zipContent, sweepVars, request, db_names, total_size,
                   size_details, show_cancel, timestamp, output_dir,
                   sized, accessible, readable_total, polls, offered, reported>>
    /\ UNCHANGED <<restoreVars, otherVars>>

\* lines 288-290: shutil.make_archive(output_dir, "zip", output_dir); it raises
\* FileNotFoundError when output_dir does not exist
MakeArchive ==
    /\ pc = "package"
    /\ IF IsDir(output_dir)
       THEN /\ fs' = Rmtree(fs, ZipName(output_dir))
                        \cup {[name |-> ZipName(output_dir), isdir |-> FALSE,
                               ctime |-> now]}
            /\ zipContent' = content
            /\ pc' = "rmstage"
            /\ UNCHANGED <<content, message>>
       ELSE /\ ExceptHandler
            /\ UNCHANGED zipContent
    /\ UNCHANGED <<now, sweepVars, request, db_names, i, total_size, size_details,
                   show_cancel, timestamp, output_dir, error_dbs, dump,
                   sized, accessible, readable_total, invocations, polls, offered,
                   reported>>
    /\ UNCHANGED <<restoreVars, otherVars>>

\* the job goes on to the download without removing output_dir
RemoveStaging_Mutant ==
    /\ pc = "rmstage"
    /\ pc' = "offer"
    /\ UNCHANGED <<now, fs, content, zipContent, sweepVars, request, db_names, i,
                   total_size, size_details, show_cancel, timestamp, output_dir,
                   error_dbs, dump, sized, accessible, readable_total, invocations,
                   polls, message, offered,
                   reported>>
    /\ UNCHANGED <<restoreVars, otherVars>>

\* line 291: shutil.rmtree(output_dir); it raises when the directory is gone
RemoveStaging ==
    /\ pc = "rmstage"
    /\ IF IsDir(output_dir)
       THEN /\ fs' = Rmtree(fs, output_dir)
            /\ content' = Emptied
            /\ pc' = "offer"
            /\ UNCHANGED message
       ELSE ExceptHandler
    /\ UNCHANGED <<now, zipContent, sweepVars, request, db_names, i, total_size,
                   size_details, show_cancel, timestamp, output_dir, error_dbs,
                   dump, sized, accessible, readable_total, invocations, polls,
                   offered, reported>>
    /\ UNCHANGED <<restoreVars, otherVars>>

\* lines 294-315: the success message with error_dbs, then the download button
\* on the archive (open() raises when the archive is missing)
OfferDownload ==
    /\ pc = "offer"
    /\ reported' = error_dbs
    /\ IF Exists(ZipName(output_dir))
       THEN /\ message' = "completed"
            /\ offered' = TRUE
            /\ UNCHANGED <<fs, content>>
       ELSE /\ message' = "failed"          \* caught at line 317
            /\ fs' = Rmtree(fs, output_dir)
            /\ content' = Emptied
            /\ UNCHANGED offered
    /\ pc' = "done"
    /\ UNCHANGED <<now, zipContent, sweepVars, request, db_names, i, total_size,
                   size_details, show_cancel, timestamp, output_dir, error_dbs,
                   dump, sized, accessible, readable_total, invocations, polls>>
    /\ UNCHANGED <<restoreVars, otherVars>>

----------------------------------------------------------------------------
(* Uploaded archives *)

\* an archive member: its directory components and the "."-separated tokens of
\* its file name (none for a directory entry, whose name ends in "/")
Member(path, file) == [path |-> path, file |-> file]

Members ==
    { Member(<<"shop">>, <<"c", "bson">>),
      Member(<<"shop">>, <<"c", "metadata", "json">>),
      Member(<<"__MACOSX">>, <<"._c", "bson">>),
      Member(<<>>, <<"dump", "bson">>),
      Member(<<"docs">>, <<"settings", "json">>) }

\* a database name as a path component
RECURSIVE JoinTokens(_)
JoinTokens(d) ==
    IF Len(d) = 1 THEN d[1] ELSE d[1] \o "_" \o JoinTokens(Tail(d))

\* line 290: the listing of the archive shutil.make_archive writes from
\* output_dir: an entry for each database folder, and the files mongodump wrote
\* into it (of a dump that is not whole, one data file)
ArchiveNames(zc) ==
    UNION { IF zc[d] = "none" THEN {}
            ELSE IF zc[d] = "folder" THEN {Member(<<JoinTokens(d)>>, <<>>)}
            ELSE IF zc[d] = "partial"
            THEN {Member(<<JoinTokens(d)>>, <<>>),
                  Member(<<JoinTokens(d)>>, <<"c", "bson">>)}
            ELSE {Member(<<JoinTokens(d)>>, <<>>),
                  Member(<<JoinTokens(d)>>, <<"c", "bson">>),
                  Member(<<JoinTokens(d)>>, <<"c", "metadata", "json">>)}
          : d \in DBs }

\* the uploaded bytes: not a ZIP at all ("not_zip"), bytes with a ZIP end
\* record whose directory cannot be read ("corrupt"), or a ZIP with these members
Uploads ==
    {[kind |-> k, names |-> {}] : k \in {"not_zip", "corrupt"}}
        \cup {[kind |-> "zip", names |-> ns] : ns \in SUBSET Members}

\* str.endswith("." + ".".join(suffix)) on a member name
EndsWith(m, suffix) ==
    /\ Len(m.file) >= Len(suffix) + 1
    /\ SubSeq(m.file, Len(m.file) - Len(suffix) + 1, Len(m.file)) = suffix

\* any name ending in ".json" taken for a dump's metadata file
HasValidStructure_Mutant(names) ==
    \E m \in names : EndsWith(m, <<"bson">>) \/ EndsWith(m, <<"json">>)

\* lines 353-356
HasValidStructure(names) ==
    \E m \in names : EndsWith(m, <<"bson">>) \/ EndsWith(m, <<"metadata", "json">>)

\* validate_backup_zip, lines 340-364: the message, "" when valid
ValidateBackupZip(zip) ==
    IF zip.kind = "not_zip" THEN "invalid_zip"                  \* line 345
    ELSE IF zip.kind = "corrupt" THEN "error_validating_zip"    \* line 364
    ELSE IF ~HasValidStructure(zip.names) THEN "no_backup_data" \* line 359
    ELSE ""

\* the top-level directories extractall leaves in temp_dir
ExtractedDirs(zip) == {m.path[1] : m \in {x \in zip.names : Len(x.path) >= 1}}

\* lines 390-394
BackupDirs(zip) == ExtractedDirs(zip) \ {"__MACOSX"}

----------------------------------------------------------------------------
(* restore_database, lines 367-436 *)

NoTool == [state |-> "none", rc |-> 0, errLeft |-> 0, outLeft |-> 0,
           errPipe |-> 0, outPipe |-> 0]
backupSide == <<now, content, zipContent, sweepVars, jobVars>>

\* lines 369-372: the staging directory is named by the second and created
StartRestore ==
    /\ pc = "idle"
    /\ rpc = "idle"
    /\ \E z \in Uploads : upload' = z
    /\ temp_dir' = [stem |-> <<"temp", "restore", Strftime(now)>>, ext |-> ""]
    /\ fs' = Makedirs(fs, temp_dir', now)
    /\ rpc' = "validate"
    /\ UNCHANGED <<backupSide, otherVars, backup_dir, rtool, lines_read, rinvocations,
                   rmessage, stderr_shown>>

\* lines 375-384: the upload is saved (open() raises when temp_dir is gone) and
\* validated; invalid: st.error, return
ValidateUpload ==
    /\ rpc = "validate"
    /\ LET error_msg == ValidateBackupZip(upload)
       IN  IF ~Exists(temp_dir)
           THEN rmessage' = "error_during_restore" /\ rpc' = "finally"
           ELSE IF error_msg # ""
           THEN rmessage' = error_msg /\ rpc' = "finally"
           ELSE rpc' = "extract" /\ UNCHANGED rmessage
    /\ UNCHANGED <<backupSide, otherVars, fs, upload, temp_dir, backup_dir, rtool,
                   lines_read, rinvocations, stderr_shown>>

\* lines 386-399: extractall (which may raise), then the first directory of the
\* listing that is not __MACOSX; none: st.error, return
ExtractUpload ==
    /\ rpc = "extract"
    /\ \E raised \in (IF Exists(temp_dir) THEN BOOLEAN ELSE {TRUE}) :
        IF raised
        THEN /\ rmessage' = "error_during_restore"
             /\ rpc' = "finally"
             /\ UNCHANGED backup_dir
        ELSE IF BackupDirs(upload) = {}
        THEN /\ rmessage' = "no_backup_directory"
             /\ rpc' = "finally"
             /\ UNCHANGED backup_dir
        ELSE /\ \E d \in BackupDirs(upload) : backup_dir' = d
             /\ rpc' = "spawn"
             /\ UNCHANGED rmessage
    /\ UNCHANGED <<backupSide, otherVars, fs, upload, temp_dir, rtool, lines_read,
                   rinvocations, stderr_shown>>

\* lines 405-411: subprocess.Popen(mongorestore ...), both streams piped; it
\* raises when the tool cannot be started
SpawnRestore ==
    /\ rpc = "spawn"
    /\ \E raised \in BOOLEAN :
        IF raised
        THEN /\ rmessage' = "error_during_restore"
             /\ rpc' = "finally"
             /\ UNCHANGED <<rtool, rinvocations>>
        ELSE /\ \E e \in 0..MaxToolLines, o \in 0..MaxToolLines :
                rtool' = [state |-> "running", rc |-> 0, errLeft |-> e,
                          outLeft |-> o, errPipe |-> 0, outPipe |-> 0]
             /\ rinvocations' = Append(rinvocations, backup_dir)
             /\ rpc' = "reading"
             /\ UNCHANGED rmessage
    /\ UNCHANGED <<backupSide, otherVars, fs, upload, temp_dir, backup_dir, lines_read,
                   stderr_shown>>

\* mongorestore writes a line to its diagnostic stream, unless that pipe is full
ToolWriteErr ==
    /\ rtool.state = "running"
    /\ rtool.errLeft > 0
    /\ rtool.errPipe < PipeCapacity
    /\ rtool' = [rtool EXCEPT !.errLeft = @ - 1, !.errPipe = @ + 1]
    /\ UNCHANGED <<backupSide, otherVars, fs, rpc, upload, temp_dir, backup_dir,
                   lines_read,
                   rinvocations, rmessage, stderr_shown>>

\* mongorestore writes a line to its standard output, unless that pipe is full
ToolWriteOut ==
    /\ rtool.state = "running"
    /\ rtool.outLeft > 0
    /\ rtool.outPipe < PipeCapacity
    /\ rtool' = [rtool EXCEPT !.outLeft = @ - 1, !.outPipe = @ + 1]
    /\ UNCHANGED <<backupSide, otherVars, fs, rpc, upload, temp_dir, backup_dir,
                   lines_read,
                   rinvocations, rmessage, stderr_shown>>

\* mongorestore has written all it had to and exits
ToolExit ==
    /\ rtool.state = "running"
    /\ rtool.errLeft = 0
    /\ rtool.outLeft = 0
    /\ \E rc \in {0, 1} : rtool' = [rtool EXCEPT !.state = "exited", !.rc = rc]
    /\ UNCHANGED <<backupSide, otherVars, fs, rpc, upload, temp_dir, backup_dir,
                   lines_read,
                   rinvocations, rmessage, stderr_shown>>

\* lines 414-421: process.stderr.readline() returns the next line, or "" at end
\* of file (the tool has exited and the pipe is empty), and blocks otherwise;
\* the loop ends on "" once poll() shows the exit
ReadLine ==
    /\ rpc = "reading"
    /\ IF rtool.errPipe > 0
       THEN /\ rtool' = [rtool EXCEPT !.errPipe = @ - 1]
            /\ lines_read' = lines_read + 1
            /\ UNCHANGED rpc
       ELSE /\ rtool.state = "exited"
            /\ rpc' = "communicate"
            /\ UNCHANGED <<rtool, lines_read>>
    /\ UNCHANGED <<backupSide, otherVars, fs, upload, temp_dir, backup_dir,
                   rinvocations,
                   rmessage, stderr_shown>>

\* lines 424-429: communicate() returns what is still unread in the pipes
Communicate ==
    /\ rpc = "communicate"
    /\ rtool' = [rtool EXCEPT !.errPipe = 0, !.outPipe = 0]
    /\ IF rtool.rc # 0
       THEN rmessage' = "error_restoring" /\ stderr_shown' = rtool.errPipe
       ELSE rmessage' = "restored" /\ UNCHANGED stderr_shown
    /\ rpc' = "finally"
    /\ UNCHANGED <<backupSide, otherVars, fs, upload, temp_dir, backup_dir, lines_read,
                   rinvocations>>

\* the cleanup done at the end of the success path only, not in a finally
RestoreFinally_Mutant ==
    /\ rpc = "finally"
    /\ fs' = IF rmessage = "restored" THEN Rmtree(fs, temp_dir) ELSE fs
    /\ rpc' = "done"
    /\ UNCHANGED <<backupSide, otherVars, upload, temp_dir, backup_dir, rtool,
                   lines_read,
                   rinvocations, rmessage, stderr_shown>>

\* lines 433-436: finally: remove temp_dir if it exists
RestoreFinally ==
    /\ rpc = "finally"
    /\ fs' = Rmtree(fs, temp_dir)
    /\ rpc' = "done"
    /\ UNCHANGED <<backupSide, otherVars, upload, temp_dir, backup_dir, rtool,
                   lines_read,
                   rinvocations, rmessage, stderr_shown>>

----------------------------------------------------------------------------
(* Time *)

TickStep == SweepSleep

\* Straight-line Python takes no time on this clock: time passes before the
\* button is clicked, while mongodump runs and after the backup job.  A restore
\* is given no clock steps: nothing it creates is looked at by age.
Waiting ==
    \/ pc = "idle" /\ rpc = "idle" /\ now < MaxStartTicks * TickStep
    \/ pc \in {"dumping", "done"}

\* the sweeper is punctual: the clock does not run past the end of its sleep,
\* and a cycle takes no time.  A dead sweeper holds nothing back.
Tick ==
    /\ Waiting
    /\ now + TickStep <= MaxTicks * TickStep
    /\ \/ spc = "dead"
       \/ spc = "sleep" /\ now + TickStep <= wakeAt
    /\ now' = now + TickStep
    /\ UNCHANGED <<fs, content, zipContent, sweepVars, jobVars>>
    /\ UNCHANGED <<restoreVars, otherVars>>

----------------------------------------------------------------------------
(* A second session of the application.  Streamlit runs the whole script again
   for every session and for every interaction, so lines 69-91 run again each
   time; an operation of the second session begins with such a run.  The
   session's own job and restore are the same functions, taken here in large
   steps: what they do to OUTPUT_DIR. *)

MaxScriptRuns == 2      \* runs of the script, the first one included
MaxSessionTicks == 1    \* clock steps while two sessions are followed

\* lines 69-72 and 89-91: OUTPUT_DIR is removed with all it holds and created
\* again, and one more cleanup thread is started (it runs the loop of lines
\* 75-86 like the first one)
OtherScriptRun ==
    /\ opc \in {"idle", "ran", "done"}
    /\ script_runs < MaxScriptRuns
    /\ script_runs' = script_runs + 1
    /\ fs' = {}
    /\ content' = Emptied
    /\ dump' = IF InUse(output_dir) /\ Exists(output_dir)
               THEN [dump EXCEPT !.disturbed = TRUE] ELSE dump
    /\ opc' = "ran"
    /\ UNCHANGED <<now, zipContent, sweepVars, pc, request, db_names, i, total_size,
                   size_details, show_cancel, timestamp, output_dir, error_dbs,
                   sized, accessible, readable_total, invocations, polls, message,
                   offered, reported, restoreVars, o_db_names, o_output_dir,
                   o_temp_dir>>

\* lines 170-231 of the second session's job: its selection passed both gates
\* and its output directory is named
OtherBackupNamed ==
    /\ opc = "ran"
    /\ \E names \in Selections :
        /\ o_db_names' = names
        /\ o_output_dir' = FolderName(names, Strftime(now))
    /\ opc' = "export"
    /\ UNCHANGED <<now, fs, content, zipContent, sweepVars, jobVars, restoreVars,
                   script_runs, o_temp_dir>>

\* lines 233-264 of the second session's job: its mongodump runs write the
\* dumps of its databases under its output directory; or it is cancelled and
\* removes that directory (lines 248-251)
OtherExport ==
    /\ opc = "export"
    /\ \E cancelled \in BOOLEAN :
        IF cancelled
        THEN /\ fs' = Rmtree(fs, o_output_dir)
             /\ content' = IF o_output_dir = output_dir THEN Emptied ELSE content
             /\ dump' = IF InUse(o_output_dir) /\ Exists(o_output_dir)
                        THEN [dump EXCEPT !.disturbed = TRUE] ELSE dump
             /\ opc' = "done"
        ELSE /\ fs' = Makedirs(fs, o_output_dir, now)
             /\ content' = IF o_output_dir = output_dir
                           THEN [d \in DBs |-> IF d \in {o_db_names[k] :
                                                           k \in 1..Len(o_db_names)}
                                               THEN "full" ELSE content[d]]
                           ELSE content
             /\ opc' = "package"
             /\ UNCHANGED dump
    /\ UNCHANGED <<now, zipContent, sweepVars, pc, request, db_names, i, total_size,
                   size_details, show_cancel, timestamp, output_dir, error_dbs,
                   sized, accessible, readable_total, invocations, polls, message,
                   offered, reported, restoreVars, script_runs, o_db_names,
                   o_output_dir, o_temp_dir>>

\* lines 288-291 of the second session's job: make_archive (it raises when the
\* directory is gone, and the handler of line 317 has nothing to remove), then
\* rmtree of its output directory
OtherPackage ==
    /\ opc = "package"
    /\ IF IsDir(o_output_dir)
       THEN /\ fs' = Rmtree(Rmtree(fs, ZipName(o_output_dir)), o_output_dir)
                        \cup {[name |-> ZipName(o_output_dir), isdir |-> FALSE,
                               ctime |-> now]}
            /\ zipContent' = IF o_output_dir = output_dir THEN content
                             ELSE zipContent
            /\ content' = IF o_output_dir = output_dir THEN Emptied ELSE content
            /\ dump' = IF InUse(o_output_dir)
                       THEN [dump EXCEPT !.disturbed = TRUE] ELSE dump
       ELSE UNCHANGED <<fs, content, zipContent, dump>>
    /\ opc' = "done"
    /\ UNCHANGED <<now, sweepVars, pc, request, db_names, i, total_size,
                   size_details, show_cancel, timestamp, output_dir, error_dbs,
                   sized, accessible, readable_total, invocations, polls, message,
                   offered, reported, restoreVars, script_runs, o_db_names,
                   o_output_dir, o_temp_dir>>

\* lines 369-372 of the second session's restore
OtherRestoreStart ==
    /\ opc = "ran"
    /\ o_temp_dir' = [stem |-> <<"temp", "restore", Strftime(now)>>, ext |-> ""]
    /\ fs' = Makedirs(fs, o_temp_dir', now)
    /\ opc' = "staged"
    /\ UNCHANGED <<now, content, zipContent, sweepVars, jobVars, restoreVars,
                   script_runs, o_db_names, o_output_dir>>

\* lines 373-436 of the second session's restore: whatever its try block did,
\* its finally removes its temp_dir
OtherRestoreFinally ==
    /\ opc = "staged"
    /\ fs' = Rmtree(fs, o_temp_dir)
    /\ opc' = "done"
    /\ UNCHANGED <<now, content, zipContent, sweepVars, jobVars, restoreVars,
                   script_runs, o_db_names, o_output_dir, o_temp_dir>>

\* the clock while two sessions are followed.  These runs are shorter than the
\* retention window, so no cleanup thread finds a directory to delete in them.
SessionTick ==
    /\ now + TickStep <= MaxSessionTicks * TickStep
    /\ now' = now + TickStep
    /\ UNCHANGED <<fs, content, zipContent, sweepVars, jobVars, restoreVars,
                   otherVars>>

----------------------------------------------------------------------------

Init ==
    /\ now = 0
    /\ fs = {}                      \* lines 70-72: OUTPUT_DIR wiped and recreated
    /\ content = Emptied
    /\ zipContent = Emptied
    /\ spc = "sleep"                \* lines 90-91: the thread starts its first cycle
    /\ wakeAt = 0
    /\ current_time = 0
    /\ pending = {}
    /\ target = NoName
    /\ pc = "idle"
    /\ request = [all |-> FALSE, names |-> <<>>]
    /\ db_names = <<>>
    /\ i = 1
    /\ total_size = 0
    /\ size_details = NoSizes
    /\ show_cancel = FALSE
    /\ timestamp = ""
    /\ output_dir = NoName
    /\ error_dbs = <<>>
    /\ dump = NoDump
    /\ sized = <<>>
    /\ accessible = {}
    /\ readable_total = 0
    /\ invocations = <<>>
    /\ polls = 0
    /\ message = "none"
    /\ offered = FALSE
    /\ reported = <<>>
    /\ rpc = "idle"
    /\ upload = [kind |-> "not_zip", names |-> {}]
    /\ temp_dir = NoName
    /\ backup_dir = ""
    /\ rtool = NoTool
    /\ lines_read = 0
    /\ rinvocations = <<>>
    /\ rmessage = "none"
    /\ stderr_shown = 0
    /\ script_runs = 1
    /\ opc = "idle"
    /\ o_db_names = <<>>
    /\ o_output_dir = NoName
    /\ o_temp_dir = NoName

Sweeper == SweepWake \/ SweepExamine \/ SweepDelete \/ SweepSleepStep

Backup ==
    \/ StartBackup \/ ListDatabases \/ SizeDatabase \/ SizeGate
    \/ CancelCheck \/ DumpStart \/ DumpFinish
    \/ MakeArchive \/ RemoveStaging \/ OfferDownload

Restore ==
    \/ StartRestore \/ ValidateUpload \/ ExtractUpload \/ SpawnRestore
    \/ ReadLine \/ Communicate \/ RestoreFinally

RestoreTool == ToolWriteErr \/ ToolWriteOut \/ ToolExit

Next == Sweeper \/ Backup \/ Restore \/ RestoreTool \/ Tick

Spec == Init /\ [][Next]_vars

OtherSession ==
    \/ OtherScriptRun \/ OtherBackupNamed \/ OtherExport \/ OtherPackage
    \/ OtherRestoreStart \/ OtherRestoreFinally

\* two sessions of the application in one process
NextSessions == Backup \/ Restore \/ RestoreTool \/ OtherSession \/ SessionTick

SpecSessions == Init /\ [][NextSessions]_vars

----------------------------------------------------------------------------
(* Properties *)

Range(seq) == {seq[k] : k \in 1..Len(seq)}
JobEntries == {e \in fs : e.name \in {output_dir, ZipName(output_dir)}}

\* C1: mongodump is not run before every requested database has been sized and
\* the sum compared with MAX_EXPORT_SIZE; a sum above the ceiling ends the job
\* with the size-limit error, no mongodump run, no directory and no archive.
C1_SizeGateBeforeExport ==
    /\ total_size = SumOver(size_details, DOMAIN size_details)
    /\ invocations # <<>> =>
          /\ sized = db_names
          /\ total_size <= MAX_EXPORT_SIZE
    /\ total_size > MAX_EXPORT_SIZE =>
          /\ invocations = <<>>
          /\ fs = {}
          /\ ~offered
          /\ pc \in {"sizing", "done"}
          /\ pc = "done" => message = "size_limit_exceeded"

C1_Witness ==
    /\ pc = "done"
    /\ message = "size_limit_exceeded"
    /\ total_size = 600 * MiB
    /\ sized = <<DbShop, DbBackupX>>

\* C3: once restore_database has returned, its staging directory is gone, on
\* every exit path.
C3_StagingRemoved ==
    rpc = "done" =>
        /\ ~Exists(temp_dir)
        /\ rmessage \in {"invalid_zip", "error_validating_zip", "no_backup_data",
                         "no_backup_directory", "error_during_restore",
                         "error_restoring", "restored"}

C3_Witness ==
    /\ rpc = "done"
    /\ rmessage = "error_restoring"
    /\ rinvocations # <<>>

\* C8: when the download is offered, the staging directory is gone, the archive
\* is there, and the job is over and completed.
C8_OfferedAfterStagingRemoved ==
    offered =>
        /\ ~Exists(output_dir)
        /\ \E e \in fs : e.name = ZipName(output_dir) /\ ~e.isdir
        /\ pc = "done"
        /\ message = "completed"
        /\ ~dump.running

C8_Witness ==
    /\ offered
    /\ Len(db_names) = 2
    /\ error_dbs = <<DbBackupX>>

\* the upload's listing has a name ending in ".bson" or ".metadata.json"
C9_HasDataFile ==
    \E m \in upload.names :
        LET n == Len(m.file)
        IN  \/ n >= 2 /\ m.file[n] = "bson"
            \/ n >= 3 /\ m.file[n - 1] = "metadata" /\ m.file[n] = "json"

\* the upload extracts to a top-level directory other than __MACOSX
C9_HasBackupDir ==
    \E m \in upload.names : Len(m.path) >= 1 /\ m.path[1] # "__MACOSX"

\* C9: mongorestore is run only for a well-formed ZIP that lists a .bson or
\* .metadata.json name and extracts to a top-level directory other than
\* __MACOSX; a restore that fails one of the three checks shows that check's
\* error and runs no tool (when extractall itself raises, the third check is not
\* reached and the error shown is the exception's).
C9_RestoreGated ==
    /\ rinvocations # <<>> =>
          /\ upload.kind = "zip"
          /\ C9_HasDataFile
          /\ C9_HasBackupDir
          /\ Len(rinvocations) = 1
          /\ rinvocations[1] # "__MACOSX"
    /\ (rpc = "done" /\ upload.kind # "zip") =>
          /\ rinvocations = <<>>
          /\ rmessage \in {"invalid_zip", "error_validating_zip"}
    /\ (rpc = "done" /\ upload.kind = "zip" /\ ~C9_HasDataFile) =>
          /\ rinvocations = <<>>
          /\ rmessage = "no_backup_data"
    /\ (rpc = "done" /\ upload.kind = "zip" /\ C9_HasDataFile /\ ~C9_HasBackupDir) =>
          /\ rinvocations = <<>>
          /\ rmessage \in {"no_backup_directory", "error_during_restore"}

C9_Witness ==
    /\ rpc = "done"
    /\ rmessage = "no_backup_directory"
    /\ upload.names = {Member(<<"__MACOSX">>, <<"._c", "bson">>),
                       Member(<<>>, <<"dump", "bson">>)}

\* C6 as claimed: the cancel button is polled before every mongodump run, and
\* an observed cancel ends the job Cancelled with no further run, no output
\* directory and no archive.
C6_Claim ==
    /\ polls >= Len(invocations)
    /\ message = "cancelled" =>
          /\ pc = "done"
          /\ ~dump.running
          /\ Len(invocations) = polls - 1
          /\ JobEntries = {}
          /\ ~offered

\* C6 as amended: the same for every job whose size total exceeds 10 MiB (the
\* only jobs the code shows the cancel button for).
C6_CancelWhenShown ==
    /\ total_size > 10 * MiB =>
          /\ polls >= Len(invocations)
          /\ pc = "invoke" => polls = Len(invocations) + 1
          /\ pc = "dumping" => polls = Len(invocations)
    /\ message = "cancelled" =>
          /\ total_size > 10 * MiB
          /\ pc = "done"
          /\ ~dump.running
          /\ Len(invocations) = polls - 1
          /\ JobEntries = {}
          /\ ~offered

C6_Witness ==
    /\ message = "cancelled"
    /\ Len(invocations) = 1
    /\ invocations[1].rc = 0

\* C2 as claimed: a job with an explicit list whose N mongodump runs have all
\* exited completes with the archive offered, the archive holding the complete
\* dump of exactly the databases whose run exited 0, and the reported error list
\* being exactly the databases whose run exited non-zero.
C2_Claim ==
    (/\ ~request.all
     /\ pc = "done"
     /\ Len(invocations) = Len(db_names)
     /\ message # "cancelled") =>
        LET F == {invocations[k].db : k \in {j \in 1..Len(invocations) :
                                                invocations[j].rc # 0}}
        IN  /\ message = "completed"
            /\ offered
            /\ {d \in DBs : zipContent[d] = "full"} = Range(db_names) \ F
            /\ Range(reported) = F
            /\ Len(reported) = Cardinality(F)

\* C4 as claimed: outside a sweep cycle no directory named backup_* is older
\* than the retention window plus one sweep interval, and the sweeper deletes
\* only directories older than the retention window.
C4_Claim ==
    /\ spc \notin {"scan", "delete"} =>
          \A e \in fs : (StartsWithBackup(e.name) /\ e.isdir) =>
                now - e.ctime <= RetentionSeconds + SweepSleep
    /\ (spc = "delete" /\ Exists(target)) =>
          current_time - Ctime(target) > RetentionSeconds

\* C5 as claimed: every entry a backup job creates is a sweep target (a
\* directory named backup_*), and outside a sweep cycle none is older than the
\* retention window plus one sweep interval.
C5_Claim ==
    \A e \in JobEntries :
        /\ StartsWithBackup(e.name) /\ e.isdir
        /\ spc \notin {"scan", "delete"} =>
              now - e.ctime <= RetentionSeconds + SweepSleep

\* C7 as claimed: a request for all databases runs mongodump exactly once, in
\* bulk mode; a non-zero exit fails the job, leaving no directory and no archive.
C7_Claim ==
    request.all =>
        /\ Len(invocations) <= 1
        /\ \A k \in 1..Len(invocations) : ~invocations[k].perDb
        /\ pc \in {"package", "rmstage", "offer"} => Len(invocations) = 1
        /\ (pc = "done" /\ invocations # <<>> /\ invocations[1].rc # 0) =>
              /\ message = "failed"
              /\ ~offered
              /\ JobEntries = {}

\* C10 as claimed: a deletion that fails never ends the sweeper's loop.
C10_Claim == spc # "dead"

\* C17: for an explicit list mongodump is run once per requested database, one
\* run at a time, in the order of the list; a run that exits non-zero neither
\* skips, repeats nor reorders the others: a job that reaches packaging has run
\* the tool for every database of the list.
C17_OnePerDatabaseInOrder ==
    ~request.all =>
        /\ Len(invocations) <= Len(db_names)
        /\ \A k \in 1..Len(invocations) :
              /\ invocations[k].perDb
              /\ invocations[k].db = db_names[k]
              /\ (invocations[k].rc = Running) <=>
                    (k = Len(invocations) /\ dump.running)
        /\ dump.running => invocations # <<>> /\ pc = "dumping"
        /\ (\/ pc \in {"package", "rmstage", "offer"}
            \/ pc = "done" /\ message \in {"completed", "failed"}) =>
              Len(invocations) = Len(db_names)

C17_Witness ==
    /\ ~request.all
    /\ pc = "package"
    /\ db_names = <<DbBackupX, DbShop>>
    /\ Len(invocations) = 2
    /\ invocations[1].rc = 1
    /\ invocations[2].rc = 0

\* the stderr lines mongorestore wrote before it exited: each was either
\* consumed by the readline loop or returned by communicate()
C18_LinesWritten == lines_read + stderr_shown

\* C18 as claimed: when mongorestore exits non-zero, the error shown contains
\* every line the tool wrote to its diagnostic stream.
C18_Claim ==
    rmessage = "error_restoring" => stderr_shown = C18_LinesWritten

\* C19 as claimed: restore_database returns for every mongorestore run that
\* would end once its output is consumed: whatever the tool has still to
\* write, the read loop is never stuck, that is, while the loop runs either it
\* or the tool can take a step.
C19_Claim ==
    rpc = "reading" =>
        \/ ENABLED ReadLine
        \/ ENABLED ToolWriteErr
        \/ ENABLED ToolWriteOut
        \/ ENABLED ToolExit

\* C14 as claimed: the size total is the sum of the collections that could be
\* read, the per-database mapping holds exactly the databases that are
\* accessible, and the job fails for permissions only when the listing of the
\* server's databases is denied or no requested database is accessible.
C14_Claim ==
    /\ total_size = readable_total
    /\ DOMAIN size_details = accessible
    /\ message = "insufficient_permissions" => request.all /\ sized = <<>>
    /\ message = "no_accessible_databases" => accessible = {}

\* C15 as claimed: every job whose size total, taken over all requested
\* databases, is at most MAX_EXPORT_SIZE, a total of zero included, goes on to
\* run mongodump (it may be cancelled at the first poll, and a request for all
\* databases must have got its list).
C15_Claim ==
    (/\ pc = "done"
     /\ db_names # <<>>
     /\ sized = db_names
     /\ total_size <= MAX_EXPORT_SIZE
     /\ message # "cancelled") => invocations # <<>>

\* C16 as claimed: every archive a completed job offers for download passes
\* validate_backup_zip, whatever databases were requested and however their
\* mongodump runs ended.
C16_Claim ==
    offered =>
        ValidateBackupZip([kind |-> "zip", names |-> ArchiveNames(zipContent)]) = ""

\* C11 as claimed: an entry of a backup job (its output directory, its archive)
\* is removed only by a step of the job itself or by the sweeper's deletion of a
\* directory older than the retention window; nothing else in the process, a
\* further run of the script included, removes it.
C11_Claim ==
    [][\A e \in JobEntries :
          e \notin fs' =>
             \/ pc' # pc
             \/ /\ spc = "delete"
                /\ target = e.name
                /\ current_time - e.ctime > RetentionSeconds]_vars

\* restore_database is between its makedirs and the end of its finally
C12_RestoreInProgress ==
    rpc \in {"validate", "extract", "spawn", "reading", "communicate", "finally"}

\* C12 as claimed: two restores that overlap have different staging
\* directories, and the cleanup that ends one leaves the staging directory of
\* the other in place.
C12_Claim ==
    /\ []((C12_RestoreInProgress /\ opc = "staged") => temp_dir # o_temp_dir)
    /\ [][(/\ opc = "staged"
           /\ opc' = "done"
           /\ C12_RestoreInProgress
           /\ Exists(temp_dir)) => Exists(temp_dir)']_vars

\* C13 as claimed: two backup jobs never have the same output directory, jobs
\* of the same scope started within the same second included, and no step of
\* one job's export, packaging or cleanup changes what the other job has
\* written.
C13_Claim ==
    /\ []((output_dir # NoName /\ o_output_dir # NoName) =>
             output_dir # o_output_dir)
    /\ [][(opc \in {"export", "package"} /\ opc' # opc) =>
             (JobEntries' = JobEntries /\ content' = content)]_vars

====
